---------------------------- MODULE Spec2Model ----------------------------
(***************************************************************************)
(* Model of veusz utils/safe_eval.py: the allowlist registry, the syntax   *)
(* tree guard (CheckNodeVisitor) and the expression compiler               *)
(* (compileChecked).                                                       *)
(*                                                                         *)
(* Identifiers are sequences of one-character strings, so that the         *)
(* source's slice tests (name.id[:2] == '__') are computed on characters.  *)
(* A syntax tree is a record [kind, name, kids]: kind is the ast class     *)
(* name, name is the node's id (Name) or attr (Attribute) and kids are     *)
(* the child nodes in the order of the class's _fields.  A node of a tree  *)
(* is addressed by its path, the sequence of child indices from the root.  *)
(***************************************************************************)
EXTENDS Naturals, Sequences, FiniteSets, TLC

(* ------------------------------ bounds --------------------------------- *)

\* Number of compileChecked calls made in one behaviour.
MaxCalls ==
    2

\* Largest number of arguments of a generated call expression.
MaxArgs ==
    1

\* Deepest nesting of a generated statement inside If / FunctionDef bodies.
MaxWrap ==
    1

(* --------------------------- the registry ------------------------------ *)

\* A slip of the registry: the exec statement left off the blacklist.
forbidden_nodes_without_exec ==
    {"Global", "Import", "ImportFrom"}

\* blacklist of nodes
forbidden_nodes ==
    {"Exec", "Global", "Import", "ImportFrom"}

\* whitelist of allowed builtins
allowed_builtins ==
    {
      <<"A","r","i","t","h","m","e","t","i","c","E","r","r","o","r">>,
      <<"A","t","t","r","i","b","u","t","e","E","r","r","o","r">>,
      <<"B","a","s","e","E","x","c","e","p","t","i","o","n">>,
      <<"E","x","c","e","p","t","i","o","n">>,
      <<"F","a","l","s","e">>,
      <<"F","l","o","a","t","i","n","g","P","o","i","n","t","E","r","r","o","r">>,
      <<"I","n","d","e","x","E","r","r","o","r">>,
      <<"K","e","y","E","r","r","o","r">>,
      <<"N","a","m","e","E","r","r","o","r">>,
      <<"N","o","n","e">>,
      <<"O","v","e","r","f","l","o","w","E","r","r","o","r">>,
      <<"R","u","n","t","i","m","e","E","r","r","o","r">>,
      <<"S","t","a","n","d","a","r","d","E","r","r","o","r">>,
      <<"S","t","o","p","I","t","e","r","a","t","i","o","n">>,
      <<"T","r","u","e">>,
      <<"T","y","p","e","E","r","r","o","r">>,
      <<"V","a","l","u","e","E","r","r","o","r">>,
      <<"Z","e","r","o","D","i","v","i","s","i","o","n","E","r","r","o","r">>,
      <<"a","b","s">>,
      <<"a","l","l">>,
      <<"a","n","y">>,
      <<"a","p","p","l","y">>,
      <<"b","a","s","e","s","t","r","i","n","g">>,
      <<"b","i","n">>,
      <<"b","o","o","l">>,
      <<"b","y","t","e","s">>,
      <<"c","a","l","l","a","b","l","e">>,
      <<"c","h","r">>,
      <<"c","m","p">>,
      <<"c","o","m","p","l","e","x">>,
      <<"d","i","c","t">>,
      <<"d","i","v","m","o","d">>,
      <<"e","n","u","m","e","r","a","t","e">>,
      <<"f","i","l","t","e","r">>,
      <<"f","l","o","a","t">>,
      <<"f","o","r","m","a","t">>,
      <<"f","r","o","z","e","n","s","e","t">>,
      <<"h","a","s","h">>,
      <<"h","e","x">>,
      <<"i","d">>,
      <<"i","n","t">>,
      <<"i","s","i","n","s","t","a","n","c","e">>,
      <<"i","s","s","u","b","c","l","a","s","s">>,
      <<"i","t","e","r">>,
      <<"l","e","n">>,
      <<"l","i","s","t">>,
      <<"l","o","n","g">>,
      <<"m","a","p">>,
      <<"m","a","x">>,
      <<"m","i","n">>,
      <<"n","e","x","t">>,
      <<"o","b","j","e","c","t">>,
      <<"o","c","t">>,
      <<"o","r","d">>,
      <<"p","o","w">>,
      <<"p","r","i","n","t">>,
      <<"p","r","o","p","e","r","t","y">>,
      <<"r","a","n","g","e">>,
      <<"r","e","d","u","c","e">>,
      <<"r","e","p","r">>,
      <<"r","e","v","e","r","s","e","d">>,
      <<"r","o","u","n","d">>,
      <<"s","e","t">>,
      <<"s","l","i","c","e">>,
      <<"s","o","r","t","e","d">>,
      <<"s","t","r">>,
      <<"s","u","m">>,
      <<"t","u","p","l","e">>,
      <<"u","n","i","c","h","r">>,
      <<"u","n","i","c","o","d","e">>,
      <<"x","r","a","n","g","e">>,
      <<"z","i","p">>
    }

\* The keys of __builtin__.__dict__ of the host runtime (CPython 2.7).
builtin_names ==
    {
      <<"A","r","i","t","h","m","e","t","i","c","E","r","r","o","r">>,
      <<"A","s","s","e","r","t","i","o","n","E","r","r","o","r">>,
      <<"A","t","t","r","i","b","u","t","e","E","r","r","o","r">>,
      <<"B","a","s","e","E","x","c","e","p","t","i","o","n">>,
      <<"B","u","f","f","e","r","E","r","r","o","r">>,
      <<"B","y","t","e","s","W","a","r","n","i","n","g">>,
      <<"D","e","p","r","e","c","a","t","i","o","n","W","a","r","n","i","n","g">>,
      <<"E","O","F","E","r","r","o","r">>,
      <<"E","l","l","i","p","s","i","s">>,
      <<"E","n","v","i","r","o","n","m","e","n","t","E","r","r","o","r">>,
      <<"E","x","c","e","p","t","i","o","n">>,
      <<"F","a","l","s","e">>,
      <<"F","l","o","a","t","i","n","g","P","o","i","n","t","E","r","r","o","r">>,
      <<"F","u","t","u","r","e","W","a","r","n","i","n","g">>,
      <<"G","e","n","e","r","a","t","o","r","E","x","i","t">>,
      <<"I","O","E","r","r","o","r">>,
      <<"I","m","p","o","r","t","E","r","r","o","r">>,
      <<"I","m","p","o","r","t","W","a","r","n","i","n","g">>,
      <<"I","n","d","e","n","t","a","t","i","o","n","E","r","r","o","r">>,
      <<"I","n","d","e","x","E","r","r","o","r">>,
      <<"K","e","y","E","r","r","o","r">>,
      <<"K","e","y","b","o","a","r","d","I","n","t","e","r","r","u","p","t">>,
      <<"L","o","o","k","u","p","E","r","r","o","r">>,
      <<"M","e","m","o","r","y","E","r","r","o","r">>,
      <<"N","a","m","e","E","r","r","o","r">>,
      <<"N","o","n","e">>,
      <<"N","o","t","I","m","p","l","e","m","e","n","t","e","d">>,
      <<"N","o","t","I","m","p","l","e","m","e","n","t","e","d","E","r","r","o","r">>,
      <<"O","S","E","r","r","o","r">>,
      <<"O","v","e","r","f","l","o","w","E","r","r","o","r">>,
      <<"P","e","n","d","i","n","g","D","e","p","r","e","c","a","t","i","o","n","W","a","r","n","i","n","g">>,
      <<"R","e","f","e","r","e","n","c","e","E","r","r","o","r">>,
      <<"R","u","n","t","i","m","e","E","r","r","o","r">>,
      <<"R","u","n","t","i","m","e","W","a","r","n","i","n","g">>,
      <<"S","t","a","n","d","a","r","d","E","r","r","o","r">>,
      <<"S","t","o","p","I","t","e","r","a","t","i","o","n">>,
      <<"S","y","n","t","a","x","E","r","r","o","r">>,
      <<"S","y","n","t","a","x","W","a","r","n","i","n","g">>,
      <<"S","y","s","t","e","m","E","r","r","o","r">>,
      <<"S","y","s","t","e","m","E","x","i","t">>,
      <<"T","a","b","E","r","r","o","r">>,
      <<"T","r","u","e">>,
      <<"T","y","p","e","E","r","r","o","r">>,
      <<"U","n","b","o","u","n","d","L","o","c","a","l","E","r","r","o","r">>,
      <<"U","n","i","c","o","d","e","D","e","c","o","d","e","E","r","r","o","r">>,
      <<"U","n","i","c","o","d","e","E","n","c","o","d","e","E","r","r","o","r">>,
      <<"U","n","i","c","o","d","e","E","r","r","o","r">>,
      <<"U","n","i","c","o","d","e","T","r","a","n","s","l","a","t","e","E","r","r","o","r">>,
      <<"U","n","i","c","o","d","e","W","a","r","n","i","n","g">>,
      <<"U","s","e","r","W","a","r","n","i","n","g">>,
      <<"V","a","l","u","e","E","r","r","o","r">>,
      <<"W","a","r","n","i","n","g">>,
      <<"Z","e","r","o","D","i","v","i","s","i","o","n","E","r","r","o","r">>,
      <<"_","_","d","e","b","u","g","_","_">>,
      <<"_","_","d","o","c","_","_">>,
      <<"_","_","i","m","p","o","r","t","_","_">>,
      <<"_","_","n","a","m","e","_","_">>,
      <<"_","_","p","a","c","k","a","g","e","_","_">>,
      <<"a","b","s">>,
      <<"a","l","l">>,
      <<"a","n","y">>,
      <<"a","p","p","l","y">>,
      <<"b","a","s","e","s","t","r","i","n","g">>,
      <<"b","i","n">>,
      <<"b","o","o","l">>,
      <<"b","u","f","f","e","r">>,
      <<"b","y","t","e","a","r","r","a","y">>,
      <<"b","y","t","e","s">>,
      <<"c","a","l","l","a","b","l","e">>,
      <<"c","h","r">>,
      <<"c","l","a","s","s","m","e","t","h","o","d">>,
      <<"c","m","p">>,
      <<"c","o","e","r","c","e">>,
      <<"c","o","m","p","i","l","e">>,
      <<"c","o","m","p","l","e","x">>,
      <<"c","o","p","y","r","i","g","h","t">>,
      <<"c","r","e","d","i","t","s">>,
      <<"d","e","l","a","t","t","r">>,
      <<"d","i","c","t">>,
      <<"d","i","r">>,
      <<"d","i","v","m","o","d">>,
      <<"e","n","u","m","e","r","a","t","e">>,
      <<"e","v","a","l">>,
      <<"e","x","e","c","f","i","l","e">>,
      <<"e","x","i","t">>,
      <<"f","i","l","e">>,
      <<"f","i","l","t","e","r">>,
      <<"f","l","o","a","t">>,
      <<"f","o","r","m","a","t">>,
      <<"f","r","o","z","e","n","s","e","t">>,
      <<"g","e","t","a","t","t","r">>,
      <<"g","l","o","b","a","l","s">>,
      <<"h","a","s","a","t","t","r">>,
      <<"h","a","s","h">>,
      <<"h","e","l","p">>,
      <<"h","e","x">>,
      <<"i","d">>,
      <<"i","n","p","u","t">>,
      <<"i","n","t">>,
      <<"i","n","t","e","r","n">>,
      <<"i","s","i","n","s","t","a","n","c","e">>,
      <<"i","s","s","u","b","c","l","a","s","s">>,
      <<"i","t","e","r">>,
      <<"l","e","n">>,
      <<"l","i","c","e","n","s","e">>,
      <<"l","i","s","t">>,
      <<"l","o","c","a","l","s">>,
      <<"l","o","n","g">>,
      <<"m","a","p">>,
      <<"m","a","x">>,
      <<"m","e","m","o","r","y","v","i","e","w">>,
      <<"m","i","n">>,
      <<"n","e","x","t">>,
      <<"o","b","j","e","c","t">>,
      <<"o","c","t">>,
      <<"o","p","e","n">>,
      <<"o","r","d">>,
      <<"p","o","w">>,
      <<"p","r","i","n","t">>,
      <<"p","r","o","p","e","r","t","y">>,
      <<"q","u","i","t">>,
      <<"r","a","n","g","e">>,
      <<"r","a","w","_","i","n","p","u","t">>,
      <<"r","e","d","u","c","e">>,
      <<"r","e","l","o","a","d">>,
      <<"r","e","p","r">>,
      <<"r","e","v","e","r","s","e","d">>,
      <<"r","o","u","n","d">>,
      <<"s","e","t">>,
      <<"s","e","t","a","t","t","r">>,
      <<"s","l","i","c","e">>,
      <<"s","o","r","t","e","d">>,
      <<"s","t","a","t","i","c","m","e","t","h","o","d">>,
      <<"s","t","r">>,
      <<"s","u","m">>,
      <<"s","u","p","e","r">>,
      <<"t","u","p","l","e">>,
      <<"t","y","p","e">>,
      <<"u","n","i","c","h","r">>,
      <<"u","n","i","c","o","d","e">>,
      <<"v","a","r","s">>,
      <<"x","r","a","n","g","e">>,
      <<"z","i","p">>
    }

(* ------------------------------ syntax trees --------------------------- *)

Node(kind, name, kids) ==
    [kind |-> kind, name |-> name, kids |-> kids]

\* The value of the variable `tree' before ast.parse has assigned it.
NoTree ==
    Node("<unbound>", <<>>, <<>>)

\* Expression contexts and operators carry no fields.
Load ==
    Node("Load", <<>>, <<>>)

Param ==
    Node("Param", <<>>, <<>>)

Add ==
    Node("Add", <<>>, <<>>)

Num ==
    Node("Num", <<>>, <<>>)

Str ==
    Node("Str", <<>>, <<>>)

\* Name(id, ctx)
Name(id) ==
    Node("Name", id, <<Load>>)

\* Name(id, ctx) of a formal parameter
ParamName(id) ==
    Node("Name", id, <<Param>>)

\* Attribute(value, attr, ctx)
Attribute(value, attr) ==
    Node("Attribute", attr, <<value, Load>>)

\* Call(func, args, keywords, starargs, kwargs)
Call(func, arglist) ==
    Node("Call", <<>>, <<func>> \o arglist)

\* BinOp(left, op, right)
BinOp(left, right) ==
    Node("BinOp", <<>>, <<left, Add, right>>)

\* Subscript(value, slice, ctx) with slice = Index(value)
Subscript(value, index) ==
    Node("Subscript", <<>>, <<value, Node("Index", <<>>, <<index>>), Load>>)

\* arguments(args, vararg, kwarg, defaults)
Arguments(ids) ==
    Node("arguments", <<>>, [i \in 1..Len(ids) |-> ParamName(ids[i])])

\* Lambda(args, body)
Lambda(ids, body) ==
    Node("Lambda", <<>>, <<Arguments(ids), body>>)

\* Expr(value): an expression used as a statement
Expr(value) ==
    Node("Expr", <<>>, <<value>>)

\* Import(names) with one alias
Import ==
    Node("Import", <<>>, <<Node("alias", <<>>, <<>>)>>)

\* ImportFrom(module, names, level) with one alias
ImportFrom ==
    Node("ImportFrom", <<>>, <<Node("alias", <<>>, <<>>)>>)

\* Global(names): the names are plain strings, not nodes
Global ==
    Node("Global", <<>>, <<>>)

\* Exec(body, globals, locals)
Exec ==
    Node("Exec", <<>>, <<Str>>)

\* Return(value)
Return(value) ==
    Node("Return", <<>>, <<value>>)

\* If(test, body, orelse)
If(test, body) ==
    Node("If", <<>>, <<test>> \o body)

\* FunctionDef(name, args, body, decorator_list)
FunctionDef(ids, body) ==
    Node("FunctionDef", <<>>, <<Arguments(ids)>> \o body)

\* Module(body): the root ast.parse builds in mode 'exec'
Module(body) ==
    Node("Module", <<>>, body)

\* Expression(body): the root ast.parse builds in mode 'eval'
Expression(body) ==
    Node("Expression", <<>>, <<body>>)

RECURSIVE NodeAt(_, _)
\* The node of tree t at path p.
NodeAt(t, p) ==
    IF p = <<>> THEN t ELSE NodeAt(t.kids[Head(p)], Tail(p))

RECURSIVE Paths(_)
\* The paths of all nodes of tree t.
Paths(t) ==
    {<<>>} \cup UNION {{<<i>> \o q : q \in Paths(t.kids[i])} : i \in 1..Len(t.kids)}

\* q is a proper ancestor of p
IsProperPrefix(q, p) ==
    /\ Len(q) < Len(p)
    /\ SubSeq(p, 1, Len(q)) = q


(* ------------------------- the guard's rules --------------------------- *)

\* s[:n]
Slice(s, n) ==
    SubSeq(s, 1, IF Len(s) < n THEN Len(s) ELSE n)

\* What a visit method does to its caller: return, or raise SafeEvalException
\* with the message built from the given parts (the translator _() leaves a
\* text without translation as it is).
Passed ==
    [raised |-> FALSE, msg |-> <<>>]

Raise(parts) ==
    [raised |-> TRUE, msg |-> parts]

\* hasattr(node, 'id'): of the ast classes only Name declares the field id
HasId(node) ==
    node.kind = "Name"

\* hasattr(node, 'attr'): of the ast classes only Attribute declares attr
HasAttr(node) ==
    node.kind = "Attribute"

\* CheckNodeVisitor.generic_visit, up to its call of the base class
generic_visit(node) ==
    IF node.kind \in forbidden_nodes
    THEN Raise(<<<<node.kind>>, <<" not safe">>>>)
    ELSE Passed

\* A slip of visit_Name: one leading underscore is enough to reject.
visit_Name_any_underscore(name, forbidden) ==
    IF Slice(name.name, 1) = <<"_">> \/ name.name \in forbidden
    THEN Raise(<<<<"Access to special names not allowed: ">>, name.name>>)
    ELSE generic_visit(name)

\* A slip of visit_Name: the blacklist is not consulted.
visit_Name_dunder_only(name, forbidden) ==
    IF Slice(name.name, 2) = <<"_","_">>
    THEN Raise(<<<<"Access to special names not allowed: ">>, name.name>>)
    ELSE generic_visit(name)

\* CheckNodeVisitor.visit_Name
visit_Name(name, forbidden) ==
    IF Slice(name.name, 2) = <<"_","_">> \/ name.name \in forbidden
    THEN Raise(<<<<"Access to special names not allowed: ">>, name.name>>)
    ELSE generic_visit(name)

\* A slip of visit_Call: a target without identifier is left to the other
\* rules.
visit_Call_named_only(call, forbidden) ==
    LET func == call.kids[1] IN
    IF HasId(func) /\ (Slice(func.name, 2) = <<"_","_">> \/ func.name \in forbidden)
    THEN Raise(<<<<"Access to special functions not allowed: ">>, func.name>>)
    ELSE generic_visit(call)

\* CheckNodeVisitor.visit_Call; call.func is the first child
visit_Call(call, forbidden) ==
    LET func == call.kids[1] IN
    IF ~HasId(func)
    THEN Raise(<<<<"Function has no identifier">>>>)
    ELSE IF Slice(func.name, 2) = <<"_","_">> \/ func.name \in forbidden
    THEN Raise(<<<<"Access to special functions not allowed: ">>, func.name>>)
    ELSE generic_visit(call)

\* A slip of visit_Attribute: the reserved prefixes are not tested.
visit_Attribute_dunder_only(attr) ==
    IF ~HasAttr(attr)
    THEN Raise(<<<<"Access denied to attribute">>>>)
    ELSE IF Slice(attr.name, 2) = <<"_","_">>
    THEN Raise(<<<<"Access to special attributes not allowed: ">>, attr.name>>)
    ELSE generic_visit(attr)

\* CheckNodeVisitor.visit_Attribute
visit_Attribute(attr) ==
    IF ~HasAttr(attr)
    THEN Raise(<<<<"Access denied to attribute">>>>)
    ELSE IF \/ Slice(attr.name, 2) = <<"_","_">>
            \/ Slice(attr.name, 5) = <<"f","u","n","c","_">>
            \/ Slice(attr.name, 3) = <<"i","m","_">>
            \/ Slice(attr.name, 3) = <<"t","b","_">>
    THEN Raise(<<<<"Access to special attributes not allowed: ">>, attr.name>>)
    ELSE generic_visit(attr)

\* ast.NodeVisitor.visit: dispatch on the class name, generic_visit by default
visit(node, forbidden) ==
    CASE node.kind = "Name" -> visit_Name(node, forbidden)
      [] node.kind = "Call" -> visit_Call(node, forbidden)
      [] node.kind = "Attribute" -> visit_Attribute(node)
      [] OTHER -> generic_visit(node)

\* A slip of the rules: the membership test written as a lookup that takes
\* the name out of the set.
registry_after_visit_name_removed(node, forbidden) ==
    IF node.kind = "Name" THEN forbidden \ {node.name} ELSE forbidden

\* forbidden_builtins after one visit: the rules only test membership
\* (name.id in forbidden_builtins), the set stays as it is.
registry_after_visit(node, forbidden) ==
    forbidden

\* A slip of the visitor: the fields are walked from the last to the first.
iter_child_nodes_reversed(t, p) ==
    LET n == Len(NodeAt(t, p).kids) IN
    [i \in 1..n |-> Append(p, n + 1 - i)]

\* A slip of the visitor: visit_Call visits call.func itself and then calls
\* generic_visit, which visits it again.
iter_child_nodes_func_twice(t, p) ==
    IF NodeAt(t, p).kind = "Call"
    THEN <<Append(p, 1)>> \o [i \in 1..Len(NodeAt(t, p).kids) |-> Append(p, i)]
    ELSE [i \in 1..Len(NodeAt(t, p).kids) |-> Append(p, i)]

\* A slip of the visitor: visit_Attribute returns without calling
\* generic_visit, so nothing below an attribute access is visited.
iter_child_nodes_not_below_attribute(t, p) ==
    IF NodeAt(t, p).kind = "Attribute"
    THEN <<>>
    ELSE [i \in 1..Len(NodeAt(t, p).kids) |-> Append(p, i)]

\* ast.NodeVisitor.generic_visit: the children of the node at path p, in
\* field order; each is visited in turn.
iter_child_nodes(t, p) ==
    [i \in 1..Len(NodeAt(t, p).kids) |-> Append(p, i)]

(* ------------------------- parser and compiler ------------------------- *)

\* os.path.basename of a filename given as its path components
Basename(filename) ==
    <<filename[Len(filename)]>>

\* unicode(e) of the exception ast.parse raised.  A SyntaxError prints its
\* message followed by the base name of the file and the line; any other
\* exception prints its message alone.
ExcText(e) ==
    IF e.type = "SyntaxError"
    THEN <<<<e.text>>, <<" (">>, Basename(e.filename), <<", line 1)">>>>
    ELSE <<<<e.text>>>>

\* ast.parse(code, filename, mode).  A text is what the parser makes of it:
\* one expression, a statement sequence, malformed text, or text holding a
\* null byte (which compile() refuses with TypeError before parsing).
ast_parse(code, filename, mode) ==
    CASE code.syntax = "nulbyte" ->
           [ok |-> FALSE, tree |-> NoTree,
            exc |-> [type |-> "TypeError", filename |-> <<>>,
                     text |-> "compile() expected string without null bytes"]]
      [] code.syntax = "malformed" \/ (code.syntax = "stmts" /\ mode = "eval") ->
           [ok |-> FALSE, tree |-> NoTree,
            exc |-> [type |-> "SyntaxError", filename |-> filename,
                     text |-> "invalid syntax"]]
      [] code.syntax = "expr" /\ mode = "eval" ->
           [ok |-> TRUE, tree |-> Expression(code.body[1]),
            exc |-> [type |-> "", filename |-> <<>>, text |-> ""]]
      [] code.syntax = "expr" /\ mode = "exec" ->
           [ok |-> TRUE, tree |-> Module(<<Expr(code.body[1])>>),
            exc |-> [type |-> "", filename |-> <<>>, text |-> ""]]
      [] OTHER ->
           [ok |-> TRUE, tree |-> Module(code.body),
            exc |-> [type |-> "", filename |-> <<>>, text |-> ""]]

\* The builtin compile(tree, filename, mode) raises SyntaxError for what only
\* the compiler checks: 'return' outside function, and a duplicate argument
\* in a function definition.
compile_raises(t) ==
    \E p \in Paths(t) :
        LET node == NodeAt(t, p) IN
        \/ /\ node.kind = "Return"
           /\ \A q \in Paths(t) :
                IsProperPrefix(q, p) => NodeAt(t, q).kind # "FunctionDef"
        \/ /\ node.kind = "arguments"
           /\ \E i, j \in 1..Len(node.kids) :
                i # j /\ node.kids[i].name = node.kids[j].name

(* ------------------------ the callers' inputs -------------------------- *)

\* Identifiers a text refers to: a caller's variable, an allowed builtin, a
\* builtin off the allowlist, a dunder builtin, a dunder name that is no
\* builtin, and a name with a single leading underscore.
Ids ==
    {<<"x">>, <<"a","b","s">>, <<"o","p","e","n">>, <<"_","_","i","m","p","o","r","t","_","_">>, <<"_","_","v">>, <<"_","v">>}

\* Member names: three harmless ones (the last two share letters with the
\* reserved prefixes) and one for each reserved prefix.
AttrNames ==
    {<<"u","p","p","e","r">>, <<"i","m","a","g">>, <<"f","u","n","c">>, <<"_","_","c","l","a","s","s","_","_">>, <<"f","u","n","c","_","g","l","o","b","a","l","s">>, <<"i","m","_","f","u","n","c">>, <<"t","b","_","f","r","a","m","e">>}

\* Argument lists of up to MaxArgs arguments
ArgLists ==
    UNION {[1..n -> {Name(<<"x">>), Name(<<"o","p","e","n">>)}] : n \in 0..MaxArgs}

\* Object expressions of an attribute access
ObjExprs ==
    {Name(<<"x">>), Name(<<"o","p","e","n">>), Num, Call(Name(<<"a","b","s">>), <<Name(<<"x">>)>>),
     Call(Name(<<"_","v">>), <<Name(<<"x">>)>>), Subscript(Name(<<"x">>), Num)}

\* Call targets that are no bare identifier
ComputedTargets ==
    {Attribute(Name(<<"x">>), <<"u","p","p","e","r">>), Attribute(Name(<<"x">>), <<"_","_","c","l","a","s","s","_","_">>),
     Subscript(Name(<<"x">>), Num), Lambda(<<>>, Name(<<"x">>)),
     Call(Name(<<"a","b","s">>), <<>>)}

Exprs ==
    {Num}
    \cup {Name(n) : n \in Ids}
    \cup {Attribute(o, a) : o \in ObjExprs, a \in AttrNames}
    \cup {Call(Name(n), al) : n \in Ids, al \in ArgLists}
    \cup {Call(f, al) : f \in ComputedTargets, al \in ArgLists}
    \cup {BinOp(Name(n), Name(m)) : n \in Ids, m \in {<<"x">>, <<"o","p","e","n">>}}
    \cup {Lambda(<<<<"x">>>>, Name(<<"x">>)), Lambda(<<<<"x">>, <<"x">>>>, Num),
          Lambda(<<<<"o","p","e","n">>>>, Num)}

ForbiddenStmts ==
    {Import, ImportFrom, Global, Exec}

RECURSIVE Wrapped(_)
\* Statements nested in up to k bodies of If and FunctionDef
Wrapped(k) ==
    IF k = 0
    THEN ForbiddenStmts \cup {Return(Name(<<"x">>)), Expr(Name(<<"x">>))}
    ELSE Wrapped(k - 1)
         \cup {If(Name(<<"x">>), <<s>>) : s \in Wrapped(k - 1)}
         \cup {FunctionDef(<<<<"x">>>>, <<s>>) : s \in Wrapped(k - 1)}

\* Statement sequences: one statement, or a forbidden statement after or
\* before an expression statement
Bodies ==
    {<<s>> : s \in Wrapped(MaxWrap)}
    \cup {<<Expr(Name(<<"x">>)), s>> : s \in ForbiddenStmts}
    \cup {<<s, Expr(Name(<<"o","p","e","n">>))>> : s \in ForbiddenStmts}

\* The texts handed to compileChecked
Texts ==
    {[syntax |-> "expr", body |-> <<e>>] : e \in Exprs}
    \cup {[syntax |-> "stmts", body |-> b] : b \in Bodies}
    \cup {[syntax |-> "malformed", body |-> <<>>],
          [syntax |-> "nulbyte", body |-> <<>>]}

Modes ==
    {"eval", "exec"}

\* Filenames as path components: the default, and a file in a directory
Filenames ==
    {<<"<string>">>, <<"docs", "plot.vsz">>}

\* The threads calling compileChecked
Callers ==
    {1}

(* ------------------------------ the state ------------------------------ *)

VARIABLES
    forbidden_builtins,  \* the module-level set built at import
    pc,                  \* per caller: where its call of compileChecked is
    arg,                 \* per caller: the arguments of its call
    tree,                \* per caller: the local variable tree
    stack,               \* per caller: paths of the nodes still to visit
    visited,             \* per caller: paths of the nodes visited, in order
    result,              \* per caller: what the call returned or raised
    ncalls,              \* calls made so far
    remembered           \* an earlier call: its arguments and how it ended

vars ==
    <<forbidden_builtins, pc, arg, tree, stack, visited, result, ncalls,
      remembered>>

NoArg ==
    [code |-> [syntax |-> "malformed", body |-> <<>>], mode |-> "eval",
     filename |-> <<"<string>">>, ignoresecurity |-> FALSE]

NoResult ==
    [kind |-> "none", msg |-> <<>>, tree |-> NoTree]

\* No earlier call is remembered.
NoCall ==
    [arg |-> NoArg, kind |-> "none"]

\* A slip of the registry: a blacklist written by hand.
hand_written_blacklist ==
    {<<"e","v","a","l">>, <<"e","x","e","c","f","i","l","e">>, <<"_","_","i","m","p","o","r","t","_","_">>, <<"c","o","m","p","i","l","e">>, <<"r","e","l","o","a","d">>}

\* blacklist using whitelist above
blacklist_from_whitelist ==
    builtin_names \ allowed_builtins

\* The state once the module is imported and no call has been made.
Init ==
    /\ forbidden_builtins = blacklist_from_whitelist
    /\ pc = [t \in Callers |-> "idle"]
    /\ arg = [t \in Callers |-> NoArg]
    /\ tree = [t \in Callers |-> NoTree]
    /\ stack = [t \in Callers |-> <<>>]
    /\ visited = [t \in Callers |-> <<>>]
    /\ result = [t \in Callers |-> NoResult]
    /\ ncalls = 0
    /\ remembered = NoCall

\* A caller calls compileChecked(code, mode, filename, ignoresecurity).
Enter(t) ==
    /\ pc[t] = "idle"
    /\ ncalls < MaxCalls
    /\ \E code \in Texts, mode \in Modes, filename \in Filenames,
          ignoresecurity \in BOOLEAN :
          arg' = [arg EXCEPT ![t] =
                    [code |-> code, mode |-> mode, filename |-> filename,
                     ignoresecurity |-> ignoresecurity]]
    /\ pc' = [pc EXCEPT ![t] = "parse"]
    /\ ncalls' = ncalls + 1
    /\ UNCHANGED <<forbidden_builtins, tree, stack, visited, result, remembered>>

\* A slip of the handler: only SyntaxError is caught, anything else the
\* parser raises goes to the caller as it is.
except_SyntaxError_only(e) ==
    IF e.type = "SyntaxError"
    THEN [kind |-> "ValueError",
          msg |-> <<<<"Unable to parse file: ">>>> \o ExcText(e), tree |-> NoTree]
    ELSE [kind |-> e.type, msg |-> ExcText(e), tree |-> NoTree]

\* except Exception, e:
\*     raise ValueError, _('Unable to parse file: %s') % unicode(e)
except_Exception(e) ==
    [kind |-> "ValueError",
     msg |-> <<<<"Unable to parse file: ">>>> \o ExcText(e), tree |-> NoTree]

\* try: tree = ast.parse(...) except Exception, e: raise ValueError;
\* then the choice of running the visitor.
Parse(t) ==
    /\ pc[t] = "parse"
    /\ LET r == ast_parse(arg[t].code, arg[t].filename, arg[t].mode) IN
       IF ~r.ok
       THEN /\ result' = [result EXCEPT ![t] = except_Exception(r.exc)]
            /\ pc' = [pc EXCEPT ![t] = "done"]
            /\ UNCHANGED <<tree, stack>>
       ELSE /\ tree' = [tree EXCEPT ![t] = r.tree]
            /\ IF ~arg[t].ignoresecurity
               THEN /\ pc' = [pc EXCEPT ![t] = "guard"]
                    /\ stack' = [stack EXCEPT ![t] = <<<<>>>>]
               ELSE /\ pc' = [pc EXCEPT ![t] = "compile"]
                    /\ UNCHANGED stack
            /\ UNCHANGED result
    /\ UNCHANGED <<forbidden_builtins, arg, visited, ncalls, remembered>>

\* One call of visitor.visit(node): the node's rule, then its children are
\* next in line; an exception unwinds the whole pass.
Visit(t) ==
    /\ pc[t] = "guard"
    /\ stack[t] # <<>>
    /\ LET p == Head(stack[t])
           r == visit(NodeAt(tree[t], p), forbidden_builtins)
       IN  /\ visited' = [visited EXCEPT ![t] = Append(@, p)]
           /\ IF r.raised
              THEN /\ result' = [result EXCEPT ![t] =
                                   [kind |-> "SafeEvalException",
                                    msg |-> r.msg, tree |-> NoTree]]
                   /\ stack' = [stack EXCEPT ![t] = <<>>]
                   /\ pc' = [pc EXCEPT ![t] = "done"]
              ELSE /\ stack' = [stack EXCEPT ![t] =
                                  iter_child_nodes(tree[t], p) \o Tail(@)]
                   /\ UNCHANGED <<result, pc>>
    /\ forbidden_builtins' =
          registry_after_visit(NodeAt(tree[t], Head(stack[t])), forbidden_builtins)
    /\ UNCHANGED <<arg, tree, ncalls, remembered>>

\* visitor.visit(tree) returns
GuardReturn(t) ==
    /\ pc[t] = "guard"
    /\ stack[t] = <<>>
    /\ pc' = [pc EXCEPT ![t] = "compile"]
    /\ UNCHANGED <<forbidden_builtins, arg, tree, stack, visited, result, ncalls,
                   remembered>>

\* compiled = compile(tree, filename, mode); return compiled
Compile(t) ==
    /\ pc[t] = "compile"
    /\ result' = [result EXCEPT ![t] =
                    IF compile_raises(tree[t])
                    THEN [kind |-> "SyntaxError",
                          msg |-> <<<<"compile">>>>, tree |-> NoTree]
                    ELSE [kind |-> "code", msg |-> <<>>, tree |-> tree[t]]]
    /\ pc' = [pc EXCEPT ![t] = "done"]
    /\ UNCHANGED <<forbidden_builtins, arg, tree, stack, visited, ncalls,
                   remembered>>

\* The call is over: its result went to the caller and its locals are gone.
Leave(t) ==
    /\ pc[t] = "done"
    /\ pc' = [pc EXCEPT ![t] = "idle"]
    /\ arg' = [arg EXCEPT ![t] = NoArg]
    /\ tree' = [tree EXCEPT ![t] = NoTree]
    /\ stack' = [stack EXCEPT ![t] = <<>>]
    /\ visited' = [visited EXCEPT ![t] = <<>>]
    /\ result' = [result EXCEPT ![t] = NoResult]
    /\ UNCHANGED <<forbidden_builtins, ncalls, remembered>>

compileChecked(t) ==
    \/ Parse(t)
    \/ Visit(t)
    \/ GuardReturn(t)
    \/ Compile(t)
    \/ Leave(t)

Next ==
    \E t \in Callers :
        \/ Enter(t)
        \/ compileChecked(t)

Spec ==
    Init /\ [][Next]_vars

\* The calling thread runs a call to its end: a pass that can take a step
\* takes it.
SpecFair ==
    /\ Init
    /\ [][Next]_vars
    /\ \A t \in Callers : WF_vars(Visit(t)) /\ WF_vars(GuardReturn(t))

(* ------------------- the same source compiled again -------------------- *)

\* Texts of every outcome, for runs in which an earlier call is remembered
RepeatTexts ==
    {[syntax |-> "expr", body |-> <<e>>] :
        e \in {Name(<<"x">>), Name(<<"o","p","e","n">>), Name(<<"_","_","v">>),
                Call(Name(<<"a","b","s">>), <<Name(<<"x">>)>>),
                Call(Name(<<"o","p","e","n">>), <<Name(<<"x">>)>>),
                Call(Attribute(Name(<<"x">>), <<"u","p","p","e","r">>), <<>>),
                Attribute(Name(<<"x">>), <<"u","p","p","e","r">>),
                Attribute(Name(<<"x">>), <<"i","m","_","f","u","n","c">>),
                BinOp(Name(<<"x">>), Name(<<"o","p","e","n">>)),
                Lambda(<<<<"x">>, <<"x">>>>, Num)}}
    \cup {[syntax |-> "stmts", body |-> b] :
            b \in {<<Import>>, <<FunctionDef(<<<<"x">>>>, <<Exec>>)>>,
                    <<Return(Name(<<"x">>))>>,
                    <<FunctionDef(<<<<"x">>>>, <<Return(Name(<<"x">>))>>)>>}}
    \cup {[syntax |-> "malformed", body |-> <<>>],
          [syntax |-> "nulbyte", body |-> <<>>]}

\* A caller calls compileChecked with one of the texts above.
EnterRepeat(t) ==
    /\ pc[t] = "idle"
    /\ ncalls < MaxCalls
    /\ \E code \in RepeatTexts, mode \in Modes, filename \in Filenames,
          ignoresecurity \in BOOLEAN :
          arg' = [arg EXCEPT ![t] =
                    [code |-> code, mode |-> mode, filename |-> filename,
                     ignoresecurity |-> ignoresecurity]]
    /\ pc' = [pc EXCEPT ![t] = "parse"]
    /\ ncalls' = ncalls + 1
    /\ UNCHANGED <<forbidden_builtins, tree, stack, visited, result, remembered>>

\* The call is over, and it is the one later calls are compared with.
LeaveRemembered(t) ==
    /\ pc[t] = "done"
    /\ remembered = NoCall
    /\ remembered' = [arg |-> arg[t], kind |-> result[t].kind]
    /\ pc' = [pc EXCEPT ![t] = "idle"]
    /\ arg' = [arg EXCEPT ![t] = NoArg]
    /\ tree' = [tree EXCEPT ![t] = NoTree]
    /\ stack' = [stack EXCEPT ![t] = <<>>]
    /\ visited' = [visited EXCEPT ![t] = <<>>]
    /\ result' = [result EXCEPT ![t] = NoResult]
    /\ UNCHANGED <<forbidden_builtins, ncalls>>

NextRepeat ==
    \E t \in Callers :
        \/ EnterRepeat(t)
        \/ LeaveRemembered(t)
        \/ compileChecked(t)

\* Sequences of calls in which any one earlier call is remembered
SpecRepeat ==
    Init /\ [][NextRepeat]_vars

(* ----------------------- calls from several threads -------------------- *)

\* Two threads of the host call compileChecked without any lock.
Threads ==
    {1, 2}

\* Texts of every outcome, for runs with several threads
ThreadTexts ==
    {[syntax |-> "expr", body |-> <<e>>] :
        e \in {Name(<<"x">>), Name(<<"o","p","e","n">>),
                Call(Name(<<"a","b","s">>), <<Name(<<"o","p","e","n">>)>>),
                Attribute(Name(<<"x">>), <<"i","m","_","f","u","n","c">>),
                Lambda(<<<<"x">>, <<"x">>>>, Num)}}
    \cup {[syntax |-> "stmts", body |-> b] :
            b \in {<<FunctionDef(<<<<"x">>>>, <<Exec>>)>>, <<Return(Name(<<"x">>))>>}}
    \cup {[syntax |-> "nulbyte", body |-> <<>>]}

InitThreads ==
    /\ forbidden_builtins = blacklist_from_whitelist
    /\ pc = [t \in Threads |-> "idle"]
    /\ arg = [t \in Threads |-> NoArg]
    /\ tree = [t \in Threads |-> NoTree]
    /\ stack = [t \in Threads |-> <<>>]
    /\ visited = [t \in Threads |-> <<>>]
    /\ result = [t \in Threads |-> NoResult]
    /\ ncalls = 0
    /\ remembered = NoCall

\* A thread calls compileChecked with one of the texts above.
EnterThread(t) ==
    /\ pc[t] = "idle"
    /\ ncalls < MaxCalls
    /\ \E code \in ThreadTexts, mode \in Modes, ignoresecurity \in BOOLEAN :
          arg' = [arg EXCEPT ![t] =
                    [code |-> code, mode |-> mode, filename |-> <<"<string>">>,
                     ignoresecurity |-> ignoresecurity]]
    /\ pc' = [pc EXCEPT ![t] = "parse"]
    /\ ncalls' = ncalls + 1
    /\ UNCHANGED <<forbidden_builtins, tree, stack, visited, result, remembered>>

\* Any thread takes its next step: every interleaving of the calls' steps
NextThreads ==
    \E t \in Threads :
        \/ EnterThread(t)
        \/ compileChecked(t)

SpecThreads ==
    InitThreads /\ [][NextThreads]_vars

(* ----------------------------- properties ------------------------------ *)

\* The identifier or member name s starts with the characters of prefix.
StartsWith(s, prefix) ==
    /\ Len(s) >= Len(prefix)
    /\ \A i \in 1..Len(prefix) : s[i] = prefix[i]

\* The nodes of tree t
NodesOf(t) ==
    {NodeAt(t, p) : p \in Paths(t)}

\* Caller t's call is over, the security check was on and the text parsed.
GuardedCallDone(t) ==
    /\ pc[t] = "done"
    /\ ~arg[t].ignoresecurity
    /\ tree[t] # NoTree

\* The text parses under the mode asked for.
Parses(a) ==
    \/ a.code.syntax = "expr"
    \/ a.code.syntax = "stmts" /\ a.mode = "exec"

\* C1: a compiled handle is returned only if ignoresecurity was true for the
\* call or the visitor went over every node of the parsed tree and no visit
\* raised; the tree handed to compile is the tree that was parsed and guarded.
C1_HandleOnlyAfterFullGuardPass ==
    \A t \in Callers :
        result[t].kind = "code" =>
            /\ result[t].tree = tree[t]
            /\ tree[t] = ast_parse(arg[t].code, arg[t].filename, arg[t].mode).tree
            /\ \/ arg[t].ignoresecurity
               \/ /\ stack[t] = <<>>
                  /\ {visited[t][i] : i \in 1..Len(visited[t])} = Paths(tree[t])
                  /\ \A n \in NodesOf(tree[t]) :
                        ~visit(n, forbidden_builtins).raised

\* C1 witness: the second call of a run returned a handle for a tree of
\* more than five nodes that the visitor went over.
C1_Witness ==
    \E t \in Callers :
        /\ ncalls = 2
        /\ result[t].kind = "code"
        /\ ~arg[t].ignoresecurity
        /\ Len(visited[t]) > 5

\* The name n may not be referenced: it starts with '__' or is blacklisted.
IsSpecialName(n) ==
    StartsWith(n, <<"_","_">>) \/ n \in forbidden_builtins

\* C2: with the security check on, an expression that references a special
\* name as a bare name, or calls it as the call target, raises
\* SafeEvalException.
C2_SpecialNameRejected ==
    \A t \in Callers :
        GuardedCallDone(t) /\ arg[t].code.syntax = "expr" =>
            \A n \in NodesOf(tree[t]) :
                \/ n.kind = "Name" /\ n.kids = <<Load>> /\ IsSpecialName(n.name)
                \/ n.kind = "Call" /\ n.kids[1].kind = "Name"
                     /\ IsSpecialName(n.kids[1].name)
                => result[t].kind = "SafeEvalException"

\* C2 witness: a call of the blacklisted builtin open was rejected by the
\* call rule.
C2_Witness ==
    \E t \in Callers :
        /\ GuardedCallDone(t)
        /\ \E n \in NodesOf(tree[t]) :
              n.kind = "Call" /\ n.kids[1] = Name(<<"o","p","e","n">>)
        /\ result[t].kind = "SafeEvalException"
        /\ result[t].msg =
              <<<<"Access to special functions not allowed: ">>, <<"o","p","e","n">>>>

\* The four forbidden statement kinds, as the claim lists them.
ForbiddenNodeKinds ==
    {"Import", "ImportFrom", "Global", "Exec"}

\* The text holds a statement of a forbidden kind, at any depth.
TextHoldsForbiddenStmt(code) ==
    /\ code.syntax = "stmts"
    /\ \E i \in 1..Len(code.body) :
          \E n \in NodesOf(code.body[i]) : n.kind \in ForbiddenNodeKinds

\* C3 as stated: compiling any text that holds an import, from-import,
\* global or exec statement raises SafeEvalException, whatever the
\* evaluation mode, the nesting and the position.
C3_Original_AnyModeRejected ==
    \A t \in Callers :
        /\ pc[t] = "done"
        /\ ~arg[t].ignoresecurity
        /\ TextHoldsForbiddenStmt(arg[t].code)
        => result[t].kind = "SafeEvalException"

\* C3 amended: with the security check on, compiling a text whose syntax
\* tree under the mode asked for holds a node of a forbidden kind raises
\* SafeEvalException, whatever the nesting and the position; in mode 'eval'
\* a text holding such a statement does not parse and raises ValueError.
C3_ForbiddenKindRejectedWhenParsed ==
    \A t \in Callers :
        /\ (GuardedCallDone(t)
              /\ (\E n \in NodesOf(tree[t]) : n.kind \in ForbiddenNodeKinds)
            => result[t].kind = "SafeEvalException")
        /\ (pc[t] = "done" /\ TextHoldsForbiddenStmt(arg[t].code)
              /\ arg[t].mode = "eval"
            => result[t].kind = "ValueError")

\* C3 witness: an exec statement in the body of a function definition, after
\* the nodes of the definition's arguments, was rejected.
C3_Witness ==
    \E t \in Callers :
        /\ GuardedCallDone(t)
        /\ tree[t] = Module(<<FunctionDef(<<<<"x">>>>, <<Exec>>)>>)
        /\ result[t].kind = "SafeEvalException"
        /\ result[t].msg = <<<<"Exec">>, <<" not safe">>>>

\* The member name starts with '__' or a reserved internal-object prefix.
IsSpecialAttr(a) ==
    \/ StartsWith(a, <<"_","_">>)
    \/ StartsWith(a, <<"f","u","n","c","_">>)
    \/ StartsWith(a, <<"i","m","_">>)
    \/ StartsWith(a, <<"t","b","_">>)

\* C4: with the security check on, an expression holding an access x.attr
\* with attr starting with '__', 'func_', 'im_' or 'tb_' raises
\* SafeEvalException, whatever the object expression x is.
C4_SpecialAttributeRejected ==
    \A t \in Callers :
        GuardedCallDone(t) /\ arg[t].code.syntax = "expr" =>
            \A n \in NodesOf(tree[t]) :
                n.kind = "Attribute" /\ IsSpecialAttr(n.name)
                => result[t].kind = "SafeEvalException"

\* C4 witness: abs(x).func_globals, a reserved prefix on the result of a
\* permitted call, was rejected by the attribute rule.
C4_Witness ==
    \E t \in Callers :
        /\ GuardedCallDone(t)
        /\ \E n \in NodesOf(tree[t]) :
              n = Attribute(Call(Name(<<"a","b","s">>), <<Name(<<"x">>)>>), <<"f","u","n","c","_","g","l","o","b","a","l","s">>)
        /\ result[t].kind = "SafeEvalException"
        /\ result[t].msg =
              <<<<"Access to special attributes not allowed: ">>, <<"f","u","n","c","_","g","l","o","b","a","l","s">>>>

\* C5: with the security check on, every call whose target is no bare
\* identifier (an attribute access, a subscript, a lambda, another call)
\* raises SafeEvalException, also when the attribute rule permits the target.
C5_ComputedCallTargetRejected ==
    \A t \in Callers :
        GuardedCallDone(t) =>
            \A n \in NodesOf(tree[t]) :
                n.kind = "Call" /\ n.kids[1].kind # "Name"
                => result[t].kind = "SafeEvalException"

\* C5 witness: x.upper(), whose target the attribute rule permits, was
\* rejected for having no identifier.
C5_Witness ==
    \E t \in Callers :
        /\ GuardedCallDone(t)
        /\ \E n \in NodesOf(tree[t]) :
              /\ n = Call(Attribute(Name(<<"x">>), <<"u","p","p","e","r">>), <<>>)
              /\ ~visit_Attribute(n.kids[1]).raised
        /\ result[t].kind = "SafeEvalException"
        /\ result[t].msg = <<<<"Function has no identifier">>>>

\* C6 as stated: with ignoresecurity = true every text that parses under the
\* mode asked for yields a compiled handle and never SafeEvalException, and
\* a text that does not parse yields ValueError.
C6_SkipFlagCompilesWhateverParses ==
    \A t \in Callers :
        pc[t] = "done" /\ arg[t].ignoresecurity =>
            /\ result[t].kind # "SafeEvalException"
            /\ Parses(arg[t]) => result[t].kind = "code"
            /\ ~Parses(arg[t]) => result[t].kind = "ValueError"

\* C7: a call raises ValueError exactly when parsing the text under the mode
\* asked for fails, and then no node was visited; SafeEvalException is
\* raised only for a text that parsed, with the check on; while the visitor
\* runs the text has parsed.
C7_ParseErrorAndSafetyViolationDisjoint ==
    \A t \in Callers :
        /\ pc[t] = "done" =>
              /\ result[t].kind = "ValueError" <=> ~Parses(arg[t])
              /\ result[t].kind = "ValueError" =>
                    visited[t] = <<>> /\ tree[t] = NoTree
              /\ result[t].kind = "SafeEvalException" =>
                    /\ Parses(arg[t])
                    /\ tree[t] # NoTree
                    /\ ~arg[t].ignoresecurity
                    /\ result[t].msg[1] # <<"Unable to parse file: ">>
        /\ pc[t] \in {"guard", "compile"} => Parses(arg[t])

\* C7 witness: a text holding a forbidden statement, compiled in mode 'eval'
\* with the check on, ended in ValueError without any node visited.
C7_Witness ==
    \E t \in Callers :
        /\ pc[t] = "done"
        /\ ~arg[t].ignoresecurity
        /\ arg[t].mode = "eval"
        /\ TextHoldsForbiddenStmt(arg[t].code)
        /\ result[t].kind = "ValueError"
        /\ visited[t] = <<>>

\* C8 as stated: every call ends in a compiled handle, ValueError or
\* SafeEvalException.
C8_ThreeOutcomesOnly ==
    \A t \in Callers :
        pc[t] = "done" =>
            result[t].kind \in {"code", "ValueError", "SafeEvalException"}

\* C9 as stated: the message of every ValueError raised holds the filename
\* the caller supplied and the parser's diagnostic text.
C9_ParseErrorNamesFileAndDiagnostic ==
    \A t \in Callers :
        pc[t] = "done" /\ result[t].kind = "ValueError" =>
            LET e == ast_parse(arg[t].code, arg[t].filename, arg[t].mode).exc
                msg == result[t].msg
            IN  /\ \E i \in 1..Len(msg) : msg[i] = arg[t].filename
                /\ \E i \in 1..Len(msg) : msg[i] = <<e.text>>

\* C10: a name of the builtin namespace is in forbidden_builtins if and only
\* if it is not in allowed_builtins, forbidden_builtins holds nothing else,
\* and with the check on a text that refers to a builtin off the allowlist
\* raises SafeEvalException.
C10_ForbiddenIsBuiltinsMinusAllowed ==
    /\ \A n \in builtin_names :
          n \in forbidden_builtins <=> n \notin allowed_builtins
    /\ forbidden_builtins \subseteq builtin_names
    /\ \A t \in Callers :
          GuardedCallDone(t) =>
              \A n \in NodesOf(tree[t]) :
                  /\ n.kind = "Name"
                  /\ n.name \in builtin_names
                  /\ n.name \notin allowed_builtins
                  => result[t].kind = "SafeEvalException"

\* C10 witness: the bare name open, a builtin off the allowlist that does
\* not start with '__', was rejected by the name rule.
C10_Witness ==
    \E t \in Callers :
        /\ GuardedCallDone(t)
        /\ arg[t].code = [syntax |-> "expr", body |-> <<Name(<<"o","p","e","n">>)>>]
        /\ result[t].kind = "SafeEvalException"
        /\ result[t].msg = <<<<"Access to special names not allowed: ">>, <<"o","p","e","n">>>>

\* C11: a call with the same text, mode, filename and skip flag as any
\* earlier call of the run ends the same way: handle or error, and the same
\* kind of error.
C11_SameSourceSameDecision ==
    \A t \in DOMAIN pc :
        /\ pc[t] = "done"
        /\ remembered # NoCall
        /\ remembered.arg = arg[t]
        => result[t].kind = remembered.kind

\* C11 witness: the name open, rejected by an earlier call, was compiled
\* again with the same arguments and rejected again.
C11_Witness ==
    \E t \in DOMAIN pc :
        /\ pc[t] = "done"
        /\ remembered.arg = arg[t]
        /\ arg[t].code = [syntax |-> "expr", body |-> <<Name(<<"o","p","e","n">>)>>]
        /\ remembered.kind = "SafeEvalException"
        /\ result[t].kind = "SafeEvalException"

RECURSIVE PreOrder(_), PreOrderOfKids(_, _)
\* The paths of tree t in depth-first pre-order: a node, then the nodes
\* below its first child, then those below its second child, and so on.
PreOrder(t) ==
    <<<<>>>> \o PreOrderOfKids(t, 1)

PreOrderOfKids(t, i) ==
    IF i > Len(t.kids)
    THEN <<>>
    ELSE LET below == PreOrder(t.kids[i]) IN
         [j \in 1..Len(below) |-> <<i>> \o below[j]] \o PreOrderOfKids(t, i + 1)

\* The node violates one of the four rules, as the specification words them.
BreaksARule(n) ==
    \/ n.kind \in ForbiddenNodeKinds
    \/ n.kind = "Name" /\ IsSpecialName(n.name)
    \/ n.kind = "Call" /\ (n.kids[1].kind # "Name" \/ IsSpecialName(n.kids[1].name))
    \/ n.kind = "Attribute" /\ IsSpecialAttr(n.name)

\* The message of the violation of node n, with the label it carries: the
\* node kind, the identifier, the call target's identifier or the member.
ViolationMessage(n) ==
    CASE n.kind = "Call" /\ n.kids[1].kind # "Name" ->
           <<<<"Function has no identifier">>>>
      [] n.kind = "Call" ->
           <<<<"Access to special functions not allowed: ">>, n.kids[1].name>>
      [] n.kind = "Name" ->
           <<<<"Access to special names not allowed: ">>, n.name>>
      [] n.kind = "Attribute" ->
           <<<<"Access to special attributes not allowed: ">>, n.name>>
      [] OTHER ->
           <<<<n.kind>>, <<" not safe">>>>

\* The indices in pre-order of the nodes of t that violate a rule
ViolatingIndices(t) ==
    {i \in 1..Len(PreOrder(t)) : BreaksARule(NodeAt(t, PreOrder(t)[i]))}

\* The least element of a non-empty set of numbers
Least(S) ==
    CHOOSE i \in S : \A j \in S : i <= j

\* C12: the pass visits the nodes in depth-first pre-order; when it raises,
\* the nodes visited are exactly those up to the first violating node in
\* pre-order, the one exception raised carries that node's message (for a
\* call, the one of the call rule, before its target is visited as a child)
\* and nothing is left to visit.
C12_FailFastPreOrder ==
    \A t \in DOMAIN pc :
        /\ pc[t] \in {"guard", "compile", "done"} =>
              visited[t] = SubSeq(PreOrder(tree[t]), 1, Len(visited[t]))
        /\ pc[t] = "done" /\ result[t].kind = "SafeEvalException" =>
              /\ ViolatingIndices(tree[t]) # {}
              /\ Len(visited[t]) = Least(ViolatingIndices(tree[t]))
              /\ result[t].msg =
                    ViolationMessage(NodeAt(tree[t], visited[t][Len(visited[t])]))
              /\ stack[t] = <<>>

\* C12 witness: open(open) holds three violating nodes; the pass stopped at
\* the call, with the call rule's message, before visiting the target.
C12_Witness ==
    \E t \in DOMAIN pc :
        /\ pc[t] = "done"
        /\ tree[t] = Expression(Call(Name(<<"o","p","e","n">>), <<Name(<<"o","p","e","n">>)>>))
        /\ Cardinality(ViolatingIndices(tree[t])) = 3
        /\ visited[t] = <<<<>>, <<1>>>>
        /\ result[t].kind = "SafeEvalException"
        /\ result[t].msg =
              <<<<"Access to special functions not allowed: ">>, <<"o","p","e","n">>>>

\* C13: with the check on, the pass over a parsed tree raises if and only
\* if some node of the tree, at any depth, violates one of the four rules
\* (a Name node of any context counts as a name reference); a pass that
\* does not raise has visited every node of the tree.
C13_GuardEqualsReferencePredicate ==
    \A t \in DOMAIN pc :
        GuardedCallDone(t) =>
            /\ result[t].kind # "SafeEvalException"
                  <=> \A n \in NodesOf(tree[t]) : ~BreaksARule(n)
            /\ result[t].kind # "SafeEvalException" =>
                  {visited[t][i] : i \in 1..Len(visited[t])} = Paths(tree[t])

\* C13 witness: _v(x).upper, whose identifiers are neither dunder-prefixed
\* nor blacklisted, passed, and the call's argument and the object
\* expression of the attribute access were visited.
C13_Witness ==
    \E t \in DOMAIN pc :
        /\ GuardedCallDone(t)
        /\ tree[t] = Expression(Attribute(Call(Name(<<"_","v">>), <<Name(<<"x">>)>>), <<"u","p","p","e","r">>))
        /\ result[t].kind = "code"
        /\ Len(visited[t]) = 8
        /\ \E i \in 1..Len(visited[t]) :
              NodeAt(tree[t], visited[t][i]) = Name(<<"x">>)

\* The tree ast.parse makes of the arguments of caller t's call
ParsedTree(t) ==
    ast_parse(arg[t].code, arg[t].filename, arg[t].mode).tree

\* C14: forbidden_builtins has in every state the value it was given at
\* import (forbidden_nodes and allowed_builtins are frozensets) and no step
\* of a call changes it; once parsed, the tree of a call is the same at
\* every step until the call is over, whatever its outcome; a pass starts
\* with nothing visited; and the tree compiled is the tree as parsed.
C14_RegistryAndTreeUnchanged ==
    /\ [](forbidden_builtins = builtin_names \ allowed_builtins)
    /\ [][/\ forbidden_builtins' = forbidden_builtins
          /\ \A t \in DOMAIN pc :
                /\ tree[t] # NoTree /\ pc[t] # "done" => tree'[t] = tree[t]
                /\ pc'[t] \in {"guard", "compile", "done"} /\ tree'[t] # NoTree
                      => tree'[t] = ParsedTree(t)'
                /\ pc[t] = "parse" /\ pc'[t] = "guard" =>
                      visited'[t] = <<>> /\ stack'[t] = <<<<>>>>
                /\ result'[t].kind = "code" => result'[t].tree = ParsedTree(t)'
         ]_vars

\* C14 witness: the second call of a run was rejected at its fourth node,
\* and the registry and the tree are as they were.
C14_Witness ==
    \E t \in DOMAIN pc :
        /\ ncalls = 2
        /\ pc[t] = "done"
        /\ result[t].kind = "SafeEvalException"
        /\ Len(visited[t]) = 4
        /\ tree[t] = ParsedTree(t)
        /\ forbidden_builtins = builtin_names \ allowed_builtins

\* How a call with arguments a ends when it runs alone: ValueError when the
\* text does not parse; with the check on, the violation of the first
\* violating node in pre-order; else what compile makes of the parsed tree.
AloneOutcome(a) ==
    LET r == ast_parse(a.code, a.filename, a.mode) IN
    IF ~Parses(a)
    THEN [kind |-> "ValueError",
          msg |-> <<<<"Unable to parse file: ">>>> \o ExcText(r.exc),
          tree |-> NoTree]
    ELSE IF ~a.ignoresecurity /\ ViolatingIndices(r.tree) # {}
    THEN [kind |-> "SafeEvalException",
          msg |-> ViolationMessage(
                    NodeAt(r.tree, PreOrder(r.tree)[Least(ViolatingIndices(r.tree))])),
          tree |-> NoTree]
    ELSE IF compile_raises(r.tree)
    THEN [kind |-> "SyntaxError", msg |-> <<<<"compile">>>>, tree |-> NoTree]
    ELSE [kind |-> "code", msg |-> <<>>, tree |-> r.tree]

\* C15: with two threads calling compileChecked without a lock, in every
\* interleaving of their parse, visit and compile steps each call ends as it
\* does when it runs alone, and the registry the calls share stays as built.
C15_InterleavedCallsEndAsAlone ==
    /\ forbidden_builtins = builtin_names \ allowed_builtins
    /\ \A t \in DOMAIN pc :
          pc[t] = "done" => result[t] = AloneOutcome(arg[t])

\* C15 witness: thread 1 has ended with a violation while thread 2, called
\* with other arguments, is in the middle of its pass.
C15_Witness ==
    /\ DOMAIN pc = {1, 2}
    /\ pc[1] = "done"
    /\ result[1].kind = "SafeEvalException"
    /\ Len(visited[1]) > 2
    /\ pc[2] = "guard"
    /\ Len(visited[2]) > 2
    /\ stack[2] # <<>>
    /\ arg[2] # arg[1]

\* C16: a pass over a parsed tree ends, by returning to compileChecked or by
\* raising SafeEvalException; no node (a place in the tree) is visited
\* twice, so the visits of a pass never outnumber the nodes of the tree.
C16_GuardPassTerminates ==
    /\ [](\A t \in Callers :
            /\ \A i, j \in 1..Len(visited[t]) :
                  visited[t][i] = visited[t][j] => i = j
            /\ Len(visited[t]) <= Cardinality(Paths(tree[t])))
    /\ \A t \in Callers :
          pc[t] = "guard" ~>
              \/ pc[t] = "compile"
              \/ pc[t] = "done" /\ result[t].kind = "SafeEvalException"

\* C16 witness: the pass over abs(x).upper, a tree of eight nodes, has
\* returned after eight visits.
C16_Witness ==
    \E t \in Callers :
        /\ pc[t] = "compile"
        /\ ~arg[t].ignoresecurity
        /\ tree[t] = Expression(Attribute(Call(Name(<<"a","b","s">>), <<Name(<<"x">>)>>), <<"u","p","p","e","r">>))
        /\ Cardinality(Paths(tree[t])) = 8
        /\ Len(visited[t]) = 8

=============================================================================
